---------------------------- MODULE Spec2Model ----------------------------
(***************************************************************************)
(* Model of bot/cogs/verification.py: the Verification cog.                *)
(*                                                                         *)
(* One lifecycle run (update_unverified_members) is a sequential task      *)
(* whose position is pc.  It suspends only at awaits; between two awaits   *)
(* its code runs without interleaving (one cooperative event loop).        *)
(* Everything else (members accepting the rules, staff reacting to the     *)
(* confirmation prompt, role changes of staff, the passing of time) is the *)
(* environment and acts only while the task is suspended.                  *)
(*                                                                         *)
(* Time since joining is counted in whole days: UNVERIFIED_AFTER and       *)
(* KICKED_AFTER are timedelta(days=...) in the source.  The confirmation   *)
(* wait is counted in seconds.  The ratio n_members / len(pydis.members)   *)
(* is compared as an exact rational, with the threshold in hundredths.     *)
(***************************************************************************)
EXTENDS Integers, FiniteSets, Sequences, TLC

\* ---------------------------------------------------------------- bounds
NumMembers == 2
MaxKickCount == 2
TickSeconds == 150

MaxClock == 58
MaxSent == 2

\* ------------------------------------------------------ program constants
UNVERIFIED_AFTER == 3
KICKED_AFTER == 30
KICK_CONFIRMATION_THRESHOLD == 1
timeout == 300
REMINDER_FREQUENCY == 28
\* discord.utils.snowflake_time reads the creation time from id >> 22
SnowflakeShift == 4194304

\* ------------------------------------------------------------ value sets
Members == 1..NumMembers

\* constants.Roles.*: the default role (@everyone), the @Unverified marker,
\* the verified role (Developers) and the announcements role
Everyone == "everyone"
Unverified == "unverified"
Developer == "verified"
Announcements == "announcements"

\* member.joined_at is None when the join date is unknown
None == -1
NoMember == None
\* current_dt of the classifier, in days, and the join days that put a member
\* before, on and after each of the two limits
Today == KICKED_AFTER + 1
JoinDays == {0, 1, Today - UNVERIFIED_AFTER - 1, Today - UNVERIFIED_AFTER, Today}

\* users who may react in #dev-core: staff[u] says who holds core_developers
Users == {"dev", "guest"}
PromptMsg == "confirmation_msg"
OtherMsg == "other_msg"
incident_actioned == "incident_actioned"
incident_unactioned == "incident_unactioned"
OtherEmoji == "other_emoji"
NoChoice == "none"
options == {incident_actioned, incident_unactioned}
Emojis == options \cup {OtherEmoji}
NoEvent == [user |-> "nobody", message |-> "no_msg", emoji |-> NoChoice]
Events == [user : Users, message : {PromptMsg, OtherMsg}, emoji : Emojis]

\* statuses a discord.HTTPException can carry; 403 is discord.Forbidden
Forbidden == 403
ServerError == 500
HTTPStatuses == {Forbidden, ServerError}

\* what can leave a run of a job: discord.HTTPException, a connection error
\* (aiohttp.ClientError, OSError), and any other exception, such as the
\* AttributeError of `self.mod_log.send_log_message` when the ModLog cog is
\* not loaded and the mod_log property is None
HTTPError == "HTTPException"
ConnectionError == "ClientError"
OtherError == "AttributeError"

VARIABLES
    \* the guild as the bot's cache shows it
    roles,          \* roles[m]: member.roles
    bot,            \* bot[m]: member.bot
    joined_at,      \* joined_at[m]: member.joined_at (a day, or None)
    inGuild,        \* inGuild[m]: m is in pydis.members
    others,         \* members of the guild that are not in Members
    staff,          \* users holding the core_developers role now
    threshold,      \* KICK_CONFIRMATION_THRESHOLD in force, in hundredths
    acceptPc,       \* acceptPc[m]: position of m's accept_command
    \* the lifecycle task
    pc,
    for_role, for_kick,
    batch,          \* locals of _send_requests and the batch it executes
    cur,            \* the member whose request is suspended at an await
    role_report, kick_report,
    summary,        \* what send_log_message emitted for this run
    \* locals of _verify_kick
    n_members,
    prompted,       \* confirmation_msg was posted
    core_dev_ids,
    waited,         \* seconds the wait_for has been pending
    choice,         \* what wait_for returned
    authResult,     \* what _verify_kick returned: "none", "true", "false"
    \* history of the run, for the properties
    accepted,       \* the reaction_add event that wait_for returned
    ignored,        \* a reaction_add was refused by check during the wait
    firstEligible,  \* first option chosen on the prompt by a core developer
    calls,          \* platform calls made on members in this run
    kickReqs,       \* members whose kick_request was started
    startedVerified,\* members found Verified when their request started
    succeeded,      \* members whose request returned normally
    failed,         \* members whose request raised discord.HTTPException
    dmFailed,       \* <<member, status>>: member_.send raised this status
    clearOutcome,   \* clear_reactions of the prompt: "none", "ok", "failed"
    editOutcome,    \* edit of the prompt: "none", "ok", "failed"
    \* the two tasks.loop jobs, the commands and the persisted settings
    tasks_running,  \* task_cache["tasks_running"]: None, 0 or 1
    updLive,        \* tasks of update_unverified_members that are not done
    pingLive,       \* tasks of ping_unverified that are not done
    bootPc,         \* maybe_start_tasks: "get", "done"; "unloaded" after cog_unload
    startPc,        \* start_cmd: "idle", "set"
    stopPc,         \* stop_cmd: "idle", "set"
    stoppedMidRun,  \* a cancel reached the lifecycle task while a run was in flight
    \* the reminder task
    pingPc,
    pingWake,       \* the time the sleep of the reminder task ends
    last_reminder,  \* task_cache["last_reminder"]: None or a message id
    channel,        \* ids of the reminder messages present in #verification
    clock,          \* datetime.utcnow(), in hours
    cursor,         \* local last_reminder of the reminder task
    new_reminder,   \* id of the message the current run sent
    sent,           \* reminders sent so far
    deleteOutcome,  \* delete_message of this run: "none", "ok", "failed"
    sleepFrom,      \* clock when _before_first_ping computed its sleep
    newAt,          \* clock when new_reminder was sent
    cursorAt        \* clock when the message named by last_reminder was sent

guildVars == <<roles, bot, joined_at, inGuild, others, staff, threshold, acceptPc>>
taskVars == <<pc, for_role, for_kick, batch, cur, role_report, kick_report, summary>>
authVars == <<n_members, prompted, core_dev_ids, waited, choice, authResult>>
histVars == <<accepted, ignored, firstEligible, calls, kickReqs, startedVerified, succeeded, failed>>
runHist == <<dmFailed, clearOutcome, editOutcome>>
schedVars == <<tasks_running, updLive, pingLive, bootPc, startPc, stopPc, stoppedMidRun>>
remindVars == <<pingPc, pingWake, last_reminder, channel, clock, cursor, new_reminder, sent,
                deleteOutcome, sleepFrom, newAt, cursorAt>>
vars == <<guildVars, taskVars, authVars, histVars, runHist, schedVars, remindVars>>

\* ------------------------------------------------------------ is_verified
\* len(set(member.roles) - {unverified role, default role}) > 0
is_verified(m) == Cardinality(roles[m] \ {Unverified, Everyone}) > 0

\* pydis.members
pydis_members == {m \in Members : inGuild[m]}

\* len(pydis.members)
guild_size == Cardinality(pydis_members) + others

\* ---------------------------------------------------------- _check_members
\* variant: the limit itself already counts as overdue
KickDue_AtLeast(since_join) == since_join >= KICKED_AFTER

\* since_join > timedelta(days=KICKED_AFTER)
KickDue(since_join) == since_join > KICKED_AFTER

\* variant: the role already held is not looked at
WarnDue_AnyRoles(since_join, m) == since_join > UNVERIFIED_AFTER

\* since_join > timedelta(days=UNVERIFIED_AFTER) and unverified not in member.roles
WarnDue(since_join, m) == since_join > UNVERIFIED_AFTER /\ Unverified \notin roles[m]

\* the skip test of the loop
Skipped(m) == is_verified(m) \/ bot[m] \/ joined_at[m] = None

\* variant: the two tests are independent `if`s instead of `if ... elif`
CheckMember_TwoIfs(acc, m) ==
    IF is_verified(m) \/ bot[m] \/ joined_at[m] = None THEN acc
    ELSE LET since_join == Today - joined_at[m]
             kick == IF since_join > KICKED_AFTER THEN {m} ELSE {}
             role == IF since_join > UNVERIFIED_AFTER /\ Unverified \notin roles[m]
                     THEN {m} ELSE {}
         IN [for_role |-> acc.for_role \cup role, for_kick |-> acc.for_kick \cup kick]

\* one pass of the loop body over member m; acc is (for_role, for_kick)
CheckMember(acc, m) ==
    IF Skipped(m) THEN acc
    ELSE LET since_join == Today - joined_at[m] IN
         IF KickDue(since_join)
         THEN [acc EXCEPT !.for_kick = @ \cup {m}]
         ELSE IF WarnDue(since_join, m)
              THEN [acc EXCEPT !.for_role = @ \cup {m}]
              ELSE acc

RECURSIVE CheckLoop(_, _)
CheckLoop(acc, todo) ==
    IF todo = {} THEN acc
    ELSE LET m == CHOOSE x \in todo : \A y \in todo : x <= y
         IN CheckLoop(CheckMember(acc, m), todo \ {m})

\* the pair _check_members returns
check_members == CheckLoop([for_role |-> {}, for_kick |-> {}], pydis_members)

\* ------------------------------------------------------------ _send_requests
\* n_success, bad_statuses = 0, set(); todo holds the coroutines not yet awaited
NewBatch(kind, members) ==
    [kind |-> kind, todo |-> members, n_success |-> 0, bad_statuses |-> {}]

NoBatch == NewBatch("none", {})

\* `for coro in coroutines`: the loop takes the coroutine of member m
Take(b, m) == [b EXCEPT !.todo = @ \ {m}]

\* else: n_success += 1
OnSuccess(b) == [b EXCEPT !.n_success = @ + 1]

\* variant: the first failure ends the loop
OnHTTPException_Abort(b, status) ==
    [b EXCEPT !.bad_statuses = @ \cup {status}, !.todo = {}]

\* except discord.HTTPException as http_exc: bad_statuses.add(http_exc.status)
OnHTTPException(b, status) == [b EXCEPT !.bad_statuses = @ \cup {status}]

\* variant: the request does not look at the member again
RequestSkips_Never(m) == FALSE

\* `if is_verified(member_): return` of kick_request and role_request
RequestSkips(m) == is_verified(m)

\* variant: every failure of the direct message is swallowed
Suppressed_Any(status) == TRUE

\* variant: no failure of the direct message is let through
Suppressed_Nothing(status) == FALSE

\* with suppress(discord.Forbidden) around member_.send(KICKED_MESSAGE)
Suppressed(status) == status = Forbidden

\* -------------------------------------------------------------- _verify_kick
\* variant: a ratio equal to the threshold is still seen as safe
SafeToKick_AtMost(n, size) == n * 100 <= threshold * size

\* percentage < KICK_CONFIRMATION_THRESHOLD, percentage = n / size
SafeToKick(n, size) == n * 100 < threshold * size

\* variant: the role is looked up when the reaction arrives
check_LiveRoles(e) ==
    /\ e.message = PromptMsg
    /\ e.emoji \in options
    /\ e.user \in staff

\* variant: who reacted is not looked at
check_AnyUser(e) ==
    /\ e.message = PromptMsg
    /\ e.emoji \in options

\* the check of wait_for: the prompt, one of the options, a core developer
check(e) ==
    /\ e.message = PromptMsg
    /\ e.emoji \in options
    /\ e.user \in core_dev_ids

\* variant: either option counts as approval
Result_AnyOption(c) == IF c \in options THEN "true" ELSE "false"

\* result = str(choice) == constants.Emojis.incident_actioned
Result(c) == IF c = incident_actioned THEN "true" ELSE "false"

\* a platform call that returned normally
OK == 200

\* variant: only discord.Forbidden is suppressed around the prompt's clean-up
SuppressedHTTP_ForbiddenOnly(status) == status = Forbidden

\* with suppress(discord.HTTPException) around clear_reactions and edit
SuppressedHTTP(status) == status \in HTTPStatuses

\* variant: the answer of _verify_kick is not acted on
NotAuthorized_Never(result) == FALSE

\* `elif not await self._verify_kick(len(for_kick))`
NotAuthorized(result) == result # "true"

\* ------------------------------------------------------------------ reports
Report(kind, n, total) == [kind |-> kind, n |-> n, total |-> total]
NoReport == Report("none", 0, 0)
NoSummary == [kick |-> NoReport, role |-> NoReport]


\* ==================================================================== Init
\* role sets a member can hold; @everyone is held by every member
RoleSets == {{Everyone} \cup r : r \in SUBSET {Unverified, Developer}}
               \cup {{Everyone, Announcements}}

\* guild sizes around each multiple of a hundred, where the ratio meets 1%
OtherCounts == {0} \cup {100 * k - NumMembers + d : k \in 1..MaxKickCount, d \in {-1, 0, 1}}

\* locals of one run and its history, as they are before the run starts
RunReset ==
    /\ for_role = {} /\ for_kick = {}
    /\ batch = NoBatch /\ cur = NoMember
    /\ role_report = NoReport /\ kick_report = NoReport /\ summary = NoSummary
    /\ n_members = 0 /\ prompted = FALSE /\ core_dev_ids = {}
    /\ waited = 0 /\ choice = NoChoice /\ authResult = "none"
    /\ accepted = NoEvent /\ ignored = FALSE /\ firstEligible = NoChoice
    /\ calls = {} /\ kickReqs = {} /\ startedVerified = {}
    /\ succeeded = {} /\ failed = {}
    /\ dmFailed = {} /\ clearOutcome = "none" /\ editOutcome = "none"

\* both jobs were started and no command is in flight; the reminder task
\* sleeps until its next iteration
JobsRunning ==
    /\ tasks_running = 1
    /\ updLive = 1 /\ pingLive = 1
    /\ bootPc = "done" /\ startPc = "idle" /\ stopPc = "idle"
    /\ stoppedMidRun = FALSE
    /\ pingPc = "sleep" /\ pingWake = REMINDER_FREQUENCY
    /\ last_reminder = None /\ channel = {} /\ clock = 0
    /\ cursor = None /\ new_reminder = None /\ sent = 0
    /\ deleteOutcome = "none" /\ sleepFrom = 0 /\ newAt = None /\ cursorAt = None

\* the members the lifecycle run is followed on: none is a bot, every join date
\* is known; they differ in roles and in time since joining
Init ==
    /\ roles \in [Members -> RoleSets \ {{Everyone, Announcements}, {Everyone, Unverified, Developer}}]
    /\ bot = [m \in Members |-> FALSE]
    /\ joined_at \in [Members -> {0, Today - UNVERIFIED_AFTER - 1}]
    /\ inGuild = [m \in Members |-> TRUE]
    /\ others \in {0, 100 * MaxKickCount}
    /\ staff = {"dev"}
    /\ threshold = KICK_CONFIRMATION_THRESHOLD
    /\ acceptPc = [m \in Members |-> "idle"]
    /\ pc = "idle"
    /\ RunReset
    /\ JobsRunning

\* every roster the classifier can be given
InitClassify ==
    /\ roles \in [Members -> RoleSets]
    /\ bot \in [Members -> BOOLEAN]
    /\ joined_at \in [Members -> JoinDays \cup {None}]
    /\ inGuild = [m \in Members |-> TRUE]
    /\ others = 0
    /\ staff = {"dev"}
    /\ threshold = KICK_CONFIRMATION_THRESHOLD
    /\ acceptPc = [m \in Members |-> "idle"]
    /\ pc = "check"
    /\ RunReset
    /\ JobsRunning

\* ================================================================ tasks.loop
\* discord.ext.tasks.Loop is library code.  A started Loop owns one asyncio
\* task that calls before_loop, then runs the decorated coroutine, sleeps
\* until the next iteration and runs it again: the runs of one task follow
\* each other.  An exception that leaves a run is retried after a backoff
\* when it is one of the connection errors the Loop lists, and ends the task
\* otherwise.  discord.HTTPException is in that list in some releases of the
\* library and not in others: both outcomes are kept.
Retries(kind) ==
    CASE kind = ConnectionError -> {TRUE}
      [] kind = HTTPError -> BOOLEAN
      [] OTHER -> {FALSE}

\* variant: the task is reported as not running although it is
is_running_Never(live) == FALSE

\* Loop.is_running(): the task exists and is not done
is_running(live) == live > 0

\* an exception of this kind leaves the run of update_unverified_members:
\* the Loop sleeps the backoff and runs again, or its task ends
RunRaises(kind) ==
    \E retry \in Retries(kind) :
        IF retry
        THEN pc' = "backoff" /\ updLive' = updLive
        ELSE pc' = "raised" /\ updLive' = updLive - 1

\* ============================================ update_unverified_members
\* the timer of tasks.loop starts a run; the run awaits the guild
LoopTrigger ==
    /\ pc \in {"idle", "backoff"}
    /\ updLive > 0
    /\ pc' = "check"
    /\ dmFailed' = {} /\ clearOutcome' = "none" /\ editOutcome' = "none"
    /\ stoppedMidRun' = FALSE
    /\ updLive' = updLive
    /\ for_role' = {} /\ for_kick' = {}
    /\ batch' = NoBatch /\ cur' = NoMember
    /\ role_report' = NoReport /\ kick_report' = NoReport /\ summary' = NoSummary
    /\ n_members' = 0 /\ prompted' = FALSE /\ core_dev_ids' = {}
    /\ waited' = 0 /\ choice' = NoChoice /\ authResult' = "none"
    /\ accepted' = NoEvent /\ ignored' = FALSE /\ firstEligible' = NoChoice
    /\ calls' = {} /\ kickReqs' = {} /\ startedVerified' = {}
    /\ succeeded' = {} /\ failed' = {}
    /\ UNCHANGED guildVars
    /\ UNCHANGED <<tasks_running, pingLive, bootPc, startPc, stopPc, remindVars>>

\* for_role, for_kick = await self._check_members()
CheckMembers ==
    /\ pc = "check"
    /\ for_role' = check_members.for_role
    /\ for_kick' = check_members.for_kick
    /\ pc' = "classified"
    /\ UNCHANGED <<guildVars, authVars, histVars>>
    /\ UNCHANGED <<batch, cur, role_report, kick_report, summary>>
    /\ UNCHANGED <<runHist, schedVars, remindVars>>

\* `if not for_role: ... else: n_roles = await self._give_role(...)`
GiveRole ==
    /\ pc = "classified"
    /\ IF for_role = {}
       THEN /\ role_report' = Report("no_users_for_role", 0, 0)
            /\ pc' = "kick_gate"
            /\ batch' = batch
       ELSE /\ batch' = NewBatch("role", for_role)
            /\ pc' = "send_requests"
            /\ role_report' = role_report
    /\ UNCHANGED <<guildVars, authVars, histVars>>
    /\ UNCHANGED <<for_role, for_kick, cur, kick_report, summary>>
    /\ UNCHANGED <<runHist, schedVars, remindVars>>

\* spec definition of Verified, used by the history variables only
Verified(m) == \E r \in roles[m] : r # Everyone /\ r # Unverified

\* `await coro` starts the request of member m; it returns at once when the
\* member has verified, and otherwise suspends in its first platform call
StartRequest(m) ==
    /\ pc = "send_requests"
    /\ m \in batch.todo
    /\ startedVerified' = IF Verified(m) THEN startedVerified \cup {m} ELSE startedVerified
    /\ kickReqs' = IF batch.kind = "kick" THEN kickReqs \cup {m} ELSE kickReqs
    /\ IF RequestSkips(m)
       THEN /\ batch' = OnSuccess(Take(batch, m))
            /\ succeeded' = succeeded \cup {m}
            /\ UNCHANGED <<pc, cur, calls>>
       ELSE /\ batch' = Take(batch, m)
            /\ cur' = m
            /\ pc' = IF batch.kind = "role" THEN "add_roles" ELSE "send_dm"
            /\ calls' = calls \cup {<<m, IF batch.kind = "role" THEN "add_roles" ELSE "send">>}
            /\ UNCHANGED succeeded
    /\ UNCHANGED <<guildVars, authVars, accepted, ignored, firstEligible, failed>>
    /\ UNCHANGED <<for_role, for_kick, role_report, kick_report, summary>>
    /\ UNCHANGED <<runHist, schedVars, remindVars>>

\* the current request returns normally
RequestReturns ==
    /\ batch' = OnSuccess(batch)
    /\ succeeded' = succeeded \cup {cur}
    /\ cur' = NoMember
    /\ pc' = "send_requests"

\* the current request raises discord.HTTPException with this status
RequestRaises(status) ==
    /\ batch' = OnHTTPException(batch, status)
    /\ failed' = failed \cup {cur}
    /\ cur' = NoMember
    /\ pc' = "send_requests"

\* await member_.add_roles(role_, ...) succeeds
AddRolesReturns ==
    /\ pc = "add_roles"
    /\ roles' = [roles EXCEPT ![cur] = @ \cup {Unverified}]
    /\ RequestReturns
    /\ UNCHANGED <<bot, joined_at, inGuild, others, staff, threshold, acceptPc>>
    /\ UNCHANGED <<authVars, accepted, ignored, firstEligible, calls, kickReqs, startedVerified, failed>>
    /\ UNCHANGED <<for_role, for_kick, role_report, kick_report, summary>>
    /\ UNCHANGED <<runHist, schedVars, remindVars>>

\* await member_.add_roles(role_, ...) raises discord.HTTPException
AddRolesFails ==
    /\ pc = "add_roles"
    /\ \E status \in HTTPStatuses : RequestRaises(status)
    /\ UNCHANGED <<guildVars, authVars>>
    /\ UNCHANGED <<accepted, ignored, firstEligible, calls, kickReqs, startedVerified, succeeded>>
    /\ UNCHANGED <<for_role, for_kick, role_report, kick_report, summary>>
    /\ UNCHANGED <<runHist, schedVars, remindVars>>

\* await member_.send(KICKED_MESSAGE) is delivered: the kick is called next
SendDmReturns ==
    /\ pc = "send_dm"
    /\ pc' = "kick"
    /\ calls' = calls \cup {<<cur, "kick">>}
    /\ UNCHANGED <<guildVars, authVars>>
    /\ UNCHANGED <<accepted, ignored, firstEligible, kickReqs, startedVerified, succeeded, failed>>
    /\ UNCHANGED <<for_role, for_kick, batch, cur, role_report, kick_report, summary>>
    /\ UNCHANGED <<runHist, schedVars, remindVars>>

\* await member_.send(KICKED_MESSAGE) raises: discord.Forbidden is suppressed
\* and the kick is called next, any other status leaves the request
SendDmFails ==
    /\ pc = "send_dm"
    /\ \E status \in HTTPStatuses :
          /\ dmFailed' = dmFailed \cup {<<cur, status>>}
          /\ IF Suppressed(status)
             THEN /\ pc' = "kick"
                  /\ calls' = calls \cup {<<cur, "kick">>}
                  /\ UNCHANGED <<batch, cur, failed>>
             ELSE /\ RequestRaises(status)
                  /\ UNCHANGED calls
    /\ UNCHANGED <<guildVars, authVars>>
    /\ UNCHANGED <<accepted, ignored, firstEligible, kickReqs, startedVerified, succeeded>>
    /\ UNCHANGED <<for_role, for_kick, role_report, kick_report, summary>>
    /\ UNCHANGED <<clearOutcome, editOutcome, schedVars, remindVars>>

\* await member_.kick(...) succeeds: the member leaves the guild
KickReturns ==
    /\ pc = "kick"
    /\ inGuild' = [inGuild EXCEPT ![cur] = FALSE]
    /\ RequestReturns
    /\ UNCHANGED <<roles, bot, joined_at, others, staff, threshold, acceptPc>>
    /\ UNCHANGED <<authVars, accepted, ignored, firstEligible, calls, kickReqs, startedVerified, failed>>
    /\ UNCHANGED <<for_role, for_kick, role_report, kick_report, summary>>
    /\ UNCHANGED <<runHist, schedVars, remindVars>>

\* await member_.kick(...) raises discord.HTTPException
KickFails ==
    /\ pc = "kick"
    /\ \E status \in HTTPStatuses : RequestRaises(status)
    /\ UNCHANGED <<guildVars, authVars>>
    /\ UNCHANGED <<accepted, ignored, firstEligible, calls, kickReqs, startedVerified, succeeded>>
    /\ UNCHANGED <<for_role, for_kick, role_report, kick_report, summary>>
    /\ UNCHANGED <<runHist, schedVars, remindVars>>

\* _send_requests returns n_success to _give_role, which returns it to the run
GiveRoleReturns ==
    /\ pc = "send_requests" /\ batch.todo = {} /\ batch.kind = "role"
    /\ role_report' = Report("assigned", batch.n_success, Cardinality(for_role))
    /\ pc' = "kick_gate"
    /\ UNCHANGED <<guildVars, authVars, histVars>>
    /\ UNCHANGED <<for_role, for_kick, batch, cur, kick_report, summary>>
    /\ UNCHANGED <<runHist, schedVars, remindVars>>

\* _send_requests returns n_success to _kick_members, which returns it to the run
KickMembersReturns ==
    /\ pc = "send_requests" /\ batch.todo = {} /\ batch.kind = "kick"
    /\ kick_report' = Report("kicked", batch.n_success, Cardinality(for_kick))
    /\ pc' = "summary"
    /\ UNCHANGED <<guildVars, authVars, histVars>>
    /\ UNCHANGED <<for_role, for_kick, batch, cur, role_report, summary>>
    /\ UNCHANGED <<runHist, schedVars, remindVars>>

\* `if not for_kick: ... elif not await self._verify_kick(len(for_kick))`
KickGate ==
    /\ pc = "kick_gate"
    /\ IF for_kick = {}
       THEN /\ kick_report' = Report("no_users_to_kick", 0, 0)
            /\ pc' = "summary"
            /\ n_members' = n_members
       ELSE /\ n_members' = Cardinality(for_kick)
            /\ pc' = "vk_start"
            /\ kick_report' = kick_report
    /\ UNCHANGED <<guildVars, histVars>>
    /\ UNCHANGED <<prompted, core_dev_ids, waited, choice, authResult>>
    /\ UNCHANGED <<for_role, for_kick, batch, cur, role_report, summary>>
    /\ UNCHANGED <<runHist, schedVars, remindVars>>

\* _verify_kick has returned (its locals are gone, its result and whether it
\* posted a prompt are remembered): report the refusal, or kick
AfterVerifyKick ==
    /\ pc = "vk_returned"
    /\ IF NotAuthorized(authResult)
       THEN /\ kick_report' = Report("not_authorized", Cardinality(for_kick), 0)
            /\ pc' = "summary"
            /\ batch' = batch
       ELSE /\ batch' = NewBatch("kick", for_kick)
            /\ pc' = "send_requests"
            /\ kick_report' = kick_report
    /\ n_members' = 0 /\ core_dev_ids' = {} /\ waited' = 0 /\ choice' = NoChoice
    /\ accepted' = NoEvent /\ ignored' = FALSE /\ firstEligible' = NoChoice
    /\ clearOutcome' = "none" /\ editOutcome' = "none"
    /\ UNCHANGED <<guildVars, prompted, authResult>>
    /\ UNCHANGED <<calls, kickReqs, startedVerified, succeeded, failed>>
    /\ UNCHANGED <<for_role, for_kick, cur, role_report, summary>>
    /\ UNCHANGED <<dmFailed, schedVars, remindVars>>

\* await self.mod_log.send_log_message(...): the run ends
SendLogMessage ==
    /\ pc = "summary"
    /\ summary' = [kick |-> kick_report, role |-> role_report]
    /\ pc' = "idle"
    /\ UNCHANGED <<guildVars, authVars, histVars>>
    /\ UNCHANGED <<for_role, for_kick, batch, cur, role_report, kick_report>>
    /\ UNCHANGED <<runHist, schedVars, remindVars>>

\* the summary is not emitted: `self.mod_log` is None, or send_log_message
\* raises; nothing in the run catches it
SendLogRaises ==
    /\ pc = "summary"
    /\ \E kind \in {HTTPError, ConnectionError, OtherError} : RunRaises(kind)
    /\ UNCHANGED <<guildVars, authVars, histVars, runHist, remindVars>>
    /\ UNCHANGED <<for_role, for_kick, batch, cur, role_report, kick_report, summary>>
    /\ UNCHANGED <<tasks_running, pingLive, bootPc, startPc, stopPc, stoppedMidRun>>

\* a platform call of a request raises something that is not a
\* discord.HTTPException: _send_requests does not catch it, it leaves the run
RequestAborts ==
    /\ pc \in {"add_roles", "send_dm", "kick"}
    /\ RunRaises(ConnectionError)
    /\ UNCHANGED <<guildVars, authVars, histVars, runHist, remindVars>>
    /\ UNCHANGED <<for_role, for_kick, batch, cur, role_report, kick_report, summary>>
    /\ UNCHANGED <<tasks_running, pingLive, bootPc, startPc, stopPc, stoppedMidRun>>

\* ============================================================ _verify_kick
\* the guild is available: the ratio is below the threshold, return True
VerifyKickSafe ==
    /\ pc = "vk_start"
    /\ SafeToKick(n_members, guild_size)
    /\ authResult' = "true"
    /\ pc' = "vk_returned"
    /\ UNCHANGED <<guildVars, histVars>>
    /\ UNCHANGED <<n_members, prompted, core_dev_ids, waited, choice>>
    /\ UNCHANGED <<for_role, for_kick, batch, cur, role_report, kick_report, summary>>
    /\ UNCHANGED <<runHist, schedVars, remindVars>>

\* the ratio is not below the threshold: core_devs.send(...) is called
VerifyKickAsk ==
    /\ pc = "vk_start"
    /\ ~SafeToKick(n_members, guild_size)
    /\ pc' = "vk_send"
    /\ UNCHANGED <<guildVars, authVars, histVars>>
    /\ UNCHANGED <<for_role, for_kick, batch, cur, role_report, kick_report, summary>>
    /\ UNCHANGED <<runHist, schedVars, remindVars>>

\* confirmation_msg is posted; the first add_reaction is called
SendPromptReturns ==
    /\ pc = "vk_send"
    /\ prompted' = TRUE
    /\ pc' = "vk_react1"
    /\ UNCHANGED <<guildVars, histVars>>
    /\ UNCHANGED <<n_members, core_dev_ids, waited, choice, authResult>>
    /\ UNCHANGED <<for_role, for_kick, batch, cur, role_report, kick_report, summary>>
    /\ UNCHANGED <<runHist, schedVars, remindVars>>

\* an add_reaction returns: the second one is called, or core_dev_ids is read
\* and wait_for registers its listener
AddReactionReturns ==
    /\ pc \in {"vk_react1", "vk_react2"}
    /\ IF pc = "vk_react1"
       THEN /\ pc' = "vk_react2"
            /\ UNCHANGED <<core_dev_ids, waited>>
       ELSE /\ pc' = "vk_wait"
            /\ core_dev_ids' = staff
            /\ waited' = 0
    /\ UNCHANGED <<accepted, ignored>>
    /\ UNCHANGED <<guildVars, firstEligible, calls, kickReqs, startedVerified, succeeded, failed>>
    /\ UNCHANGED <<n_members, prompted, choice, authResult>>
    /\ UNCHANGED <<for_role, for_kick, batch, cur, role_report, kick_report, summary>>
    /\ UNCHANGED <<runHist, schedVars, remindVars>>

\* core_devs.send or add_reaction raises discord.HTTPException: neither is
\* inside a try, the exception leaves _verify_kick and the run
PromptFails ==
    /\ pc \in {"vk_send", "vk_react1", "vk_react2"}
    /\ \E kind \in {HTTPError, ConnectionError} : RunRaises(kind)
    /\ UNCHANGED <<accepted, ignored>>
    /\ UNCHANGED <<guildVars, authVars, firstEligible, calls, kickReqs, startedVerified, succeeded, failed>>
    /\ UNCHANGED <<for_role, for_kick, batch, cur, role_report, kick_report, summary>>
    /\ UNCHANGED <<runHist, tasks_running, pingLive, bootPc, startPc, stopPc, stoppedMidRun, remindVars>>

\* a core developer, by the roles held when the reaction is made
Eligible(u) == IF pc = "vk_wait" THEN u \in core_dev_ids ELSE u \in staff

\* the gateway dispatches reaction_add: the listener of wait_for takes the
\* event when check accepts it; with no listener registered it is dropped
ReactionAdd(e) ==
    /\ pc \in {"vk_react1", "vk_react2", "vk_wait"}
    /\ waited < timeout
    /\ firstEligible' =
          IF /\ firstEligible = NoChoice
             /\ e.message = PromptMsg /\ e.emoji \in options /\ Eligible(e.user)
          THEN e.emoji ELSE firstEligible
    /\ IF pc = "vk_wait"
       THEN IF check(e)
            THEN /\ choice' = e.emoji
                 /\ accepted' = e
                 /\ pc' = "vk_clear"
                 /\ UNCHANGED ignored
            ELSE /\ ignored' = TRUE
                 /\ UNCHANGED <<choice, accepted, pc>>
       ELSE UNCHANGED <<choice, accepted, ignored, pc>>
    /\ UNCHANGED <<guildVars, calls, kickReqs, startedVerified, succeeded, failed>>
    /\ UNCHANGED <<n_members, prompted, core_dev_ids, waited, authResult>>
    /\ UNCHANGED <<for_role, for_kick, batch, cur, role_report, kick_report, summary>>
    /\ UNCHANGED <<runHist, schedVars, remindVars>>

\* time passes while wait_for is pending
Tick ==
    /\ pc = "vk_wait"
    /\ waited < timeout
    /\ waited' = waited + TickSeconds
    /\ UNCHANGED <<accepted, ignored>>
    /\ UNCHANGED <<guildVars, firstEligible, calls, kickReqs, startedVerified, succeeded, failed>>
    /\ UNCHANGED <<n_members, prompted, core_dev_ids, choice, authResult>>
    /\ UNCHANGED taskVars
    /\ UNCHANGED <<runHist, schedVars, remindVars>>

\* variant: the wait has no deadline
TimedOut_Never(w) == FALSE

\* wait_for(..., timeout=300) raises asyncio.TimeoutError once 300 seconds
\* have passed without an accepted reaction
TimedOut(w) == w >= timeout

\* except asyncio.TimeoutError: the finally clause runs before `return False`
WaitTimesOut ==
    /\ pc = "vk_wait"
    /\ TimedOut(waited)
    /\ pc' = "vk_clear"
    /\ UNCHANGED <<accepted, ignored>>
    /\ UNCHANGED <<guildVars, authVars, firstEligible, calls, kickReqs, startedVerified, succeeded, failed>>
    /\ UNCHANGED <<for_role, for_kick, batch, cur, role_report, kick_report, summary>>
    /\ UNCHANGED <<runHist, schedVars, remindVars>>

\* finally: clear_reactions() returns, or raises discord.HTTPException, which
\* is suppressed; on the timeout path False is returned, else the edit is called
ClearReactionsEnds ==
    /\ pc = "vk_clear"
    /\ \E status \in {OK} \cup HTTPStatuses :
          /\ clearOutcome' = IF status = OK THEN "ok" ELSE "failed"
          /\ IF status = OK \/ SuppressedHTTP(status)
             THEN /\ IF choice = NoChoice
                     THEN /\ authResult' = "false"
                          /\ pc' = "vk_returned"
                     ELSE /\ pc' = "vk_edit"
                          /\ UNCHANGED authResult
                  /\ UNCHANGED updLive
             ELSE /\ RunRaises(HTTPError)
                  /\ UNCHANGED authResult
    /\ UNCHANGED <<accepted, ignored>>
    /\ UNCHANGED <<guildVars, firstEligible, calls, kickReqs, startedVerified, succeeded, failed>>
    /\ UNCHANGED <<n_members, prompted, core_dev_ids, waited, choice>>
    /\ UNCHANGED <<for_role, for_kick, batch, cur, role_report, kick_report, summary>>
    /\ UNCHANGED <<dmFailed, editOutcome, remindVars>>
    /\ UNCHANGED <<tasks_running, pingLive, bootPc, startPc, stopPc, stoppedMidRun>>

\* confirmation_msg.edit(...) returns, or raises discord.HTTPException, which
\* is suppressed: `return result`
EditEnds ==
    /\ pc = "vk_edit"
    /\ \E status \in {OK} \cup HTTPStatuses :
          /\ editOutcome' = IF status = OK THEN "ok" ELSE "failed"
          /\ IF status = OK \/ SuppressedHTTP(status)
             THEN /\ authResult' = Result(choice)
                  /\ pc' = "vk_returned"
                  /\ UNCHANGED updLive
             ELSE /\ RunRaises(HTTPError)
                  /\ UNCHANGED authResult
    /\ UNCHANGED <<guildVars, histVars>>
    /\ UNCHANGED <<n_members, prompted, core_dev_ids, waited, choice>>
    /\ UNCHANGED <<for_role, for_kick, batch, cur, role_report, kick_report, summary>>
    /\ UNCHANGED <<dmFailed, clearOutcome, remindVars>>
    /\ UNCHANGED <<tasks_running, pingLive, bootPc, startPc, stopPc, stoppedMidRun>>

\* ============================================================= environment
\* the lifecycle task is suspended at an await (or not running): other
\* handlers of the event loop can run
Suspended ==
    pc \in {"check", "add_roles", "send_dm", "kick", "vk_start", "vk_send",
            "vk_react1", "vk_react2", "vk_wait", "vk_clear", "vk_edit", "summary"}

\* accept_command: add_roles(verified) has returned; the unverified role is
\* looked up in ctx.author.roles and its removal is called when it is there
AcceptAddsRole(m) ==
    /\ Suspended
    /\ inGuild[m] /\ acceptPc[m] = "idle"
    /\ Developer \notin roles[m]
    /\ roles' = [roles EXCEPT ![m] = @ \cup {Developer}]
    /\ acceptPc' = [acceptPc EXCEPT ![m] = IF Unverified \in roles[m] THEN "remove_roles" ELSE "idle"]
    /\ UNCHANGED <<bot, joined_at, inGuild, others, staff, threshold>>
    /\ UNCHANGED <<taskVars, authVars, firstEligible, calls, kickReqs, startedVerified, succeeded, failed>>
    /\ UNCHANGED <<accepted, ignored>>
    /\ UNCHANGED <<runHist, schedVars, remindVars>>

\* accept_command: remove_roles(unverified) has returned
AcceptRemovesRole(m) ==
    /\ Suspended
    /\ acceptPc[m] = "remove_roles"
    /\ roles' = [roles EXCEPT ![m] = @ \ {Unverified}]
    /\ acceptPc' = [acceptPc EXCEPT ![m] = "idle"]
    /\ UNCHANGED <<bot, joined_at, inGuild, others, staff, threshold>>
    /\ UNCHANGED <<taskVars, authVars, firstEligible, calls, kickReqs, startedVerified, succeeded, failed>>
    /\ UNCHANGED <<accepted, ignored>>
    /\ UNCHANGED <<runHist, schedVars, remindVars>>

\* a user is given, or loses, the core_developers role while a prompt is open
StaffChange(u) ==
    /\ pc \in {"vk_react1", "vk_react2", "vk_wait"}
    /\ staff' = IF u \in staff THEN staff \ {u} ELSE staff \cup {u}
    /\ UNCHANGED <<accepted, ignored>>
    /\ UNCHANGED <<roles, bot, joined_at, inGuild, others, threshold, acceptPc>>
    /\ UNCHANGED <<taskVars, authVars, firstEligible, calls, kickReqs, startedVerified, succeeded, failed>>
    /\ UNCHANGED <<runHist, schedVars, remindVars>>

\* ========================================================= ping_unverified
\* Time is counted in hours.  A message id is a snowflake: the creation time
\* in the high bits, worker and sequence numbers in the low 22 bits.
Snowflake(t, low) == t * SnowflakeShift + low

\* discord.utils.snowflake_time(id)
snowflake_time(id) == id \div SnowflakeShift

Max(a, b) == IF a >= b THEN a ELSE b

\* variant: the whole interval is slept, whatever the age of the reminder
secs_FullInterval(now, last) == REMINDER_FREQUENCY

\* to_sleep = timedelta(hours=REMINDER_FREQUENCY) - (utcnow() - snowflake_time(last_reminder))
\* secs = max(to_sleep.total_seconds(), 0)
secs(now, last) == Max(REMINDER_FREQUENCY - (now - snowflake_time(last)), 0)

\* variant: the deletion is called whether or not a reminder is cached
DeleteNeeded_Always(c) == TRUE

\* `if last_reminder is not None:`
DeleteNeeded(c) == c # None

\* an exception of this kind leaves the run of ping_unverified
PingRaises(kind) ==
    \E retry \in Retries(kind) :
        IF retry
        THEN pingPc' = "backoff" /\ pingLive' = pingLive
        ELSE pingPc' = "raised" /\ pingLive' = pingLive - 1

\* _before_first_ping: the cached id is read; with none cached the first run
\* starts, otherwise the task sleeps secs
BeforeFirstPing ==
    /\ pingPc = "before_get"
    /\ cursor' = last_reminder
    /\ sleepFrom' = clock
    /\ IF last_reminder = None
       THEN /\ pingPc' = "run_get"
            /\ pingWake' = clock + REMINDER_FREQUENCY
       ELSE /\ pingPc' = "before_sleep"
            /\ pingWake' = clock + secs(clock, last_reminder)
    /\ new_reminder' = None /\ newAt' = None /\ deleteOutcome' = "none"
    /\ UNCHANGED <<last_reminder, channel, clock, sent, cursorAt>>
    /\ UNCHANGED <<guildVars, taskVars, authVars, histVars, runHist, schedVars>>

\* the sleep of the task is over (or the backoff after a failed run): a run
\* starts, and the iteration after it is due REMINDER_FREQUENCY hours later
PingWakes ==
    /\ \/ pingPc \in {"before_sleep", "sleep"} /\ clock >= pingWake
       \/ pingPc = "backoff"
    /\ pingPc' = "run_get"
    /\ pingWake' = clock + REMINDER_FREQUENCY
    /\ cursor' = None /\ new_reminder' = None /\ sleepFrom' = 0
    /\ newAt' = None /\ deleteOutcome' = "none"
    /\ UNCHANGED <<last_reminder, channel, clock, sent, cursorAt>>
    /\ UNCHANGED <<guildVars, taskVars, authVars, histVars, runHist, schedVars>>

\* the guild is available and task_cache.get("last_reminder") returns
PingGet ==
    /\ pingPc = "run_get"
    /\ cursor' = last_reminder
    /\ pingPc' = IF DeleteNeeded(last_reminder) THEN "run_delete" ELSE "run_send"
    /\ UNCHANGED <<pingWake, last_reminder, channel, clock, new_reminder, sent, deleteOutcome,
                   sleepFrom, newAt, cursorAt>>
    /\ UNCHANGED <<guildVars, taskVars, authVars, histVars, runHist, schedVars>>

\* delete_message returns, or raises discord.HTTPException, which is
\* suppressed; it cannot succeed on a message that is gone
PingDeleteEnds ==
    /\ pingPc = "run_delete"
    /\ \E status \in {OK} \cup HTTPStatuses :
          /\ status = OK => cursor \in channel
          /\ channel' = IF status = OK THEN channel \ {cursor} ELSE channel
          /\ deleteOutcome' = IF status = OK THEN "ok" ELSE "failed"
          /\ IF status = OK \/ SuppressedHTTP(status)
             THEN pingPc' = "run_send" /\ pingLive' = pingLive
             ELSE PingRaises(HTTPError)
    /\ UNCHANGED <<pingWake, last_reminder, clock, cursor, new_reminder, sent, sleepFrom, newAt, cursorAt>>
    /\ UNCHANGED <<guildVars, taskVars, authVars, histVars, runHist>>
    /\ UNCHANGED <<tasks_running, updLive, bootPc, startPc, stopPc, stoppedMidRun>>

\* the id the platform gives the next reminder
NextId == Snowflake(clock, SnowflakeShift - 2 - sent)

\* verification.send(REMINDER_MESSAGE) returns the new message
PingSendReturns ==
    /\ pingPc = "run_send"
    /\ sent < MaxSent
    /\ new_reminder' = NextId
    /\ newAt' = clock
    /\ channel' = channel \cup {NextId}
    /\ sent' = sent + 1
    /\ pingPc' = "run_set"
    /\ UNCHANGED <<pingWake, last_reminder, clock, cursor, deleteOutcome, sleepFrom, cursorAt>>
    /\ UNCHANGED <<guildVars, taskVars, authVars, histVars, runHist, schedVars>>

\* verification.send raises: nothing in the run catches it
PingSendFails ==
    /\ pingPc = "run_send"
    /\ \E kind \in {HTTPError, ConnectionError} : PingRaises(kind)
    /\ UNCHANGED <<pingWake, last_reminder, channel, clock, cursor, new_reminder, sent,
                   deleteOutcome, sleepFrom, newAt, cursorAt>>
    /\ UNCHANGED <<guildVars, taskVars, authVars, histVars, runHist>>
    /\ UNCHANGED <<tasks_running, updLive, bootPc, startPc, stopPc, stoppedMidRun>>

\* task_cache.set("last_reminder", new_reminder.id) returns: the run ends
PingSet ==
    /\ pingPc = "run_set"
    /\ last_reminder' = new_reminder
    /\ cursorAt' = newAt
    /\ pingPc' = "sleep"
    /\ cursor' = None /\ newAt' = None
    /\ UNCHANGED <<pingWake, channel, clock, new_reminder, sent, deleteOutcome, sleepFrom>>
    /\ UNCHANGED <<guildVars, taskVars, authVars, histVars, runHist, schedVars>>

\* no cache or platform call is pending and no command is in flight
Quiet ==
    /\ pingPc \in {"off", "before_sleep", "sleep", "raised"}
    /\ pc \in {"idle", "raised"}
    /\ bootPc # "get" /\ startPc = "idle" /\ stopPc = "idle"

\* hours pass; the calls of the cog take far less than an hour, so the clock
\* moves between them only
TimePasses(d) ==
    /\ Quiet
    /\ clock + d <= MaxClock
    /\ clock' = clock + d
    /\ UNCHANGED <<pingPc, pingWake, last_reminder, channel, cursor, new_reminder, sent,
                   deleteOutcome, sleepFrom, newAt, cursorAt>>
    /\ UNCHANGED <<guildVars, taskVars, authVars, histVars, runHist, schedVars>>

\* ==================================================== commands and process
\* another handler of the event loop can run: the lifecycle task is at an
\* await, asleep, or over
Yielded == Suspended \/ pc \in {"idle", "backoff", "raised", "cancelled", "cancel_clear"}

runLocals == <<for_role, for_kick, batch, cur, role_report, kick_report, summary>>

\* variant: a set flag counts as on, whatever its value
Truthy_NotNone(setting) == setting # None

\* `if setting:` on an Optional[int]
Truthy(setting) == setting # None /\ setting # 0

\* variant: Loop.stop(), which lets the run in flight finish
CancelRun_Graceful(p) == p

\* Loop.cancel() on a task that is not done: asyncio.CancelledError is raised
\* in the task at the await it is suspended at.  Nothing in the cog catches
\* it; the finally clause of _verify_kick still awaits clear_reactions when
\* the await was the wait_for
CancelRun(p) == IF p = "vk_wait" THEN "cancel_clear" ELSE "cancelled"

\* self.update_unverified_members.cancel(); self.ping_unverified.cancel().
\* The platform or cache call a task was awaiting may or may not have taken
\* effect (landed) when it is cancelled
CancelTasks ==
    /\ IF is_running(updLive)
       THEN /\ pc' = CancelRun(pc)
            /\ stoppedMidRun' = (stoppedMidRun \/ Suspended)
       ELSE UNCHANGED <<pc, stoppedMidRun>>
    /\ pingPc' = IF is_running(pingLive) THEN CancelRun(pingPc) ELSE pingPc
    /\ \E landed \in BOOLEAN :
          /\ inGuild' = IF landed /\ is_running(updLive) /\ pc = "kick"
                        THEN [inGuild EXCEPT ![cur] = FALSE] ELSE inGuild
          /\ roles' = IF landed /\ is_running(updLive) /\ pc = "add_roles"
                      THEN [roles EXCEPT ![cur] = @ \cup {Unverified}] ELSE roles
    /\ \E landed \in BOOLEAN :
          LET live == landed /\ is_running(pingLive) IN
          /\ channel' = CASE live /\ pingPc = "run_send" /\ sent < MaxSent -> channel \cup {NextId}
                           [] live /\ pingPc = "run_delete" -> channel \ {cursor}
                           [] OTHER -> channel
          /\ sent' = IF live /\ pingPc = "run_send" /\ sent < MaxSent THEN sent + 1 ELSE sent
          /\ last_reminder' = IF live /\ pingPc = "run_set" THEN new_reminder ELSE last_reminder
          /\ cursorAt' = IF live /\ pingPc = "run_set" THEN newAt ELSE cursorAt
    /\ UNCHANGED <<bot, joined_at, others, staff, threshold, acceptPc>>
    /\ UNCHANGED <<runLocals, authVars, histVars, runHist>>
    /\ UNCHANGED <<pingWake, clock, cursor, new_reminder, deleteOutcome, sleepFrom, newAt>>
    /\ UNCHANGED <<updLive, pingLive, startPc>>

\* maybe_start_tasks: task_cache.get("tasks_running") returns; both loops
\* are started when the setting is truthy
MaybeStartTasks ==
    /\ bootPc = "get"
    /\ bootPc' = "done"
    /\ IF Truthy(tasks_running)
       THEN /\ updLive' = updLive + 1
            /\ pingLive' = pingLive + 1
            /\ pingPc' = "before_get"
       ELSE UNCHANGED <<updLive, pingLive, pingPc>>
    /\ UNCHANGED <<tasks_running, startPc, stopPc, stoppedMidRun>>
    /\ UNCHANGED <<pingWake, last_reminder, channel, clock, cursor, new_reminder, sent,
                   deleteOutcome, sleepFrom, newAt, cursorAt>>
    /\ UNCHANGED <<guildVars, taskVars, authVars, histVars, runHist>>

\* start_cmd up to its first await: each loop is started unless is_running()
StartCmd ==
    /\ bootPc = "done" /\ startPc = "idle"
    /\ Yielded
    /\ startPc' = "set"
    /\ IF ~is_running(updLive)
       THEN /\ updLive' = updLive + 1
            /\ pc' = "idle"
       ELSE UNCHANGED <<updLive, pc>>
    /\ IF ~is_running(pingLive)
       THEN /\ pingLive' = pingLive + 1
            /\ pingPc' = "before_get"
       ELSE UNCHANGED <<pingLive, pingPc>>
    /\ UNCHANGED <<tasks_running, bootPc, stopPc, stoppedMidRun>>
    /\ UNCHANGED <<pingWake, last_reminder, channel, clock, cursor, new_reminder, sent,
                   deleteOutcome, sleepFrom, newAt, cursorAt>>
    /\ UNCHANGED <<guildVars, runLocals, authVars, histVars, runHist>>

\* start_cmd: task_cache.set("tasks_running", 1) returns; the reply is sent
StartSet ==
    /\ startPc = "set"
    /\ tasks_running' = 1
    /\ startPc' = "idle"
    /\ UNCHANGED <<updLive, pingLive, bootPc, stopPc, stoppedMidRun>>
    /\ UNCHANGED <<guildVars, taskVars, authVars, histVars, runHist, remindVars>>

\* stop_cmd up to its first await: both loops are cancelled
StopCmd ==
    /\ bootPc = "done" /\ stopPc = "idle"
    /\ Yielded
    /\ stopPc' = "set"
    /\ CancelTasks
    /\ UNCHANGED <<tasks_running, bootPc>>

\* stop_cmd: task_cache.set("tasks_running", 0) returns; the reply is sent
StopSet ==
    /\ stopPc = "set"
    /\ tasks_running' = 0
    /\ stopPc' = "idle"
    /\ UNCHANGED <<updLive, pingLive, bootPc, startPc, stoppedMidRun>>
    /\ UNCHANGED <<guildVars, taskVars, authVars, histVars, runHist, remindVars>>

\* cog_unload: both loops are cancelled; the commands of the cog are gone
CogUnload ==
    /\ bootPc = "done"
    /\ Yielded
    /\ bootPc' = "unloaded"
    /\ CancelTasks
    /\ UNCHANGED <<tasks_running, stopPc>>

\* the CancelledError of the lifecycle task is in the finally clause of
\* _verify_kick: clear_reactions ends, the error goes on
CancelClearEnds ==
    /\ pc = "cancel_clear"
    /\ pc' = "cancelled"
    /\ \E status \in {OK} \cup HTTPStatuses :
          clearOutcome' = IF status = OK THEN "ok" ELSE "failed"
    /\ UNCHANGED <<guildVars, runLocals, authVars, histVars, dmFailed, editOutcome>>
    /\ UNCHANGED <<schedVars, remindVars>>

\* the CancelledError leaves the Loop: the lifecycle task is done
UpdateCancelled ==
    /\ pc = "cancelled"
    /\ pc' = "idle"
    /\ updLive' = updLive - 1
    /\ UNCHANGED <<guildVars, runLocals, authVars, histVars, runHist, remindVars>>
    /\ UNCHANGED <<tasks_running, pingLive, bootPc, startPc, stopPc, stoppedMidRun>>

\* the CancelledError leaves the Loop: the reminder task is done
PingCancelled ==
    /\ pingPc = "cancelled"
    /\ pingPc' = "off"
    /\ pingLive' = pingLive - 1
    /\ UNCHANGED <<pingWake, last_reminder, channel, clock, cursor, new_reminder, sent,
                   deleteOutcome, sleepFrom, newAt, cursorAt>>
    /\ UNCHANGED <<guildVars, taskVars, authVars, histVars, runHist>>
    /\ UNCHANGED <<tasks_running, updLive, bootPc, startPc, stopPc, stoppedMidRun>>

\* the process is restarted: tasks, commands in flight and locals are gone,
\* the cache, the channel and the guild stay; __init__ creates the task of
\* maybe_start_tasks
Restart ==
    /\ bootPc \in {"done", "unloaded"}
    /\ bootPc' = "get"
    /\ updLive' = 0 /\ pingLive' = 0
    /\ startPc' = "idle" /\ stopPc' = "idle"
    /\ stoppedMidRun' = FALSE
    /\ pc' = "idle"
    /\ for_role' = {} /\ for_kick' = {}
    /\ batch' = NoBatch /\ cur' = NoMember
    /\ role_report' = NoReport /\ kick_report' = NoReport /\ summary' = NoSummary
    /\ n_members' = 0 /\ prompted' = FALSE /\ core_dev_ids' = {}
    /\ waited' = 0 /\ choice' = NoChoice /\ authResult' = "none"
    /\ accepted' = NoEvent /\ ignored' = FALSE /\ firstEligible' = NoChoice
    /\ calls' = {} /\ kickReqs' = {} /\ startedVerified' = {}
    /\ succeeded' = {} /\ failed' = {}
    /\ dmFailed' = {} /\ clearOutcome' = "none" /\ editOutcome' = "none"
    /\ pingPc' = "off" /\ pingWake' = 0
    /\ cursor' = None /\ new_reminder' = None /\ newAt' = None
    /\ deleteOutcome' = "none" /\ sleepFrom' = 0
    /\ UNCHANGED <<guildVars, tasks_running, last_reminder, channel, clock, sent, cursorAt>>

\* ========================================================== specifications
\* the steps of _verify_kick, the reactions it can be sent and its clock
VerifyKick ==
    \/ VerifyKickSafe
    \/ VerifyKickAsk
    \/ SendPromptReturns
    \/ AddReactionReturns
    \/ PromptFails
    \/ \E e \in Events : ReactionAdd(e)
    \/ Tick
    \/ WaitTimesOut
    \/ ClearReactionsEnds
    \/ EditEnds

\* _verify_kick while the holders of the core_developers role change
AuthNext ==
    \/ VerifyKick
    \/ \E u \in Users : StaffChange(u)

\* a lifecycle run while members accept the rules; the core developers are
\* the same throughout
Next ==
    \/ LoopTrigger
    \/ CheckMembers
    \/ GiveRole
    \/ \E m \in Members : StartRequest(m)
    \/ AddRolesReturns
    \/ AddRolesFails
    \/ SendDmReturns
    \/ SendDmFails
    \/ KickReturns
    \/ KickFails
    \/ GiveRoleReturns
    \/ KickMembersReturns
    \/ KickGate
    \/ AfterVerifyKick
    \/ SendLogMessage
    \/ SendLogRaises
    \/ RequestAborts
    \/ VerifyKick
    \/ \E m \in Members : AcceptAddsRole(m)
    \/ \E m \in Members : AcceptRemovesRole(m)

\* the lifecycle job with its environment
Spec == Init /\ [][Next]_vars

\* the classifier applied to every roster
SpecClassify == InitClassify /\ [][CheckMembers]_vars

\* _verify_kick called with every count and guild size, under the default
\* threshold and under a threshold of 0 (the setting the source documents)
InitAuth ==
    /\ roles = [m \in Members |-> {Everyone, Developer}]
    /\ bot = [m \in Members |-> FALSE]
    /\ joined_at = [m \in Members |-> 0]
    /\ inGuild = [m \in Members |-> TRUE]
    /\ others \in OtherCounts
    /\ staff = {"dev"}
    /\ threshold \in {0, KICK_CONFIRMATION_THRESHOLD}
    /\ acceptPc = [m \in Members |-> "idle"]
    /\ pc = "vk_start"
    /\ for_role = {} /\ for_kick = {}
    /\ batch = NoBatch /\ cur = NoMember
    /\ role_report = NoReport /\ kick_report = NoReport /\ summary = NoSummary
    /\ n_members \in 1..MaxKickCount
    /\ prompted = FALSE /\ core_dev_ids = {}
    /\ waited = 0 /\ choice = NoChoice /\ authResult = "none"
    /\ accepted = NoEvent /\ ignored = FALSE /\ firstEligible = NoChoice
    /\ calls = {} /\ kickReqs = {} /\ startedVerified = {}
    /\ succeeded = {} /\ failed = {}
    /\ dmFailed = {} /\ clearOutcome = "none" /\ editOutcome = "none"
    /\ JobsRunning

SpecAuth == InitAuth /\ [][AuthNext]_vars

\* the process has just started: __init__ has created the task of
\* maybe_start_tasks, no loop was started, no command is in flight
ProcessStart ==
    /\ updLive = 0 /\ pingLive = 0
    /\ bootPc = "get" /\ startPc = "idle" /\ stopPc = "idle"
    /\ stoppedMidRun = FALSE
    /\ pingPc = "off" /\ pingWake = 0
    /\ cursor = None /\ new_reminder = None /\ newAt = None
    /\ deleteOutcome = "none" /\ sleepFrom = 0
    /\ pc = "idle"
    /\ RunReset

\* the clock at the start, and the ages a cached reminder can have then:
\* just sent, 10 hours (18 are left to sleep), the interval, and more
StartClock == REMINDER_FREQUENCY + 2
Ages == {0, 10, REMINDER_FREQUENCY, REMINDER_FREQUENCY + 2}
TimeSteps == {10, 18}

\* a guild with one member to warn and the others to kick, at process start,
\* with the tasks_running setting off or on
InitSched ==
    /\ roles = [m \in Members |-> {Everyone}]
    /\ bot = [m \in Members |-> FALSE]
    /\ joined_at = [m \in Members |-> IF m = 1 THEN Today - UNVERIFIED_AFTER - 1 ELSE 0]
    /\ inGuild = [m \in Members |-> TRUE]
    /\ others \in {0, 100 * MaxKickCount}
    /\ staff = {"dev"}
    /\ threshold = KICK_CONFIRMATION_THRESHOLD
    /\ acceptPc = [m \in Members |-> "idle"]
    /\ tasks_running \in {0, 1}
    /\ last_reminder = None /\ channel = {} /\ cursorAt = None
    /\ clock = StartClock /\ sent = 0
    /\ ProcessStart

\* the lifecycle job under the start and stop commands; the reminder task is
\* followed to its first await only
SchedNext ==
    \/ MaybeStartTasks
    \/ StartCmd
    \/ StartSet
    \/ StopCmd
    \/ StopSet
    \/ UpdateCancelled
    \/ CancelClearEnds
    \/ PingCancelled
    \/ LoopTrigger
    \/ CheckMembers
    \/ GiveRole
    \/ \E m \in Members : StartRequest(m)
    \/ AddRolesReturns
    \/ AddRolesFails
    \/ SendDmReturns
    \/ SendDmFails
    \/ KickReturns
    \/ KickFails
    \/ GiveRoleReturns
    \/ KickMembersReturns
    \/ KickGate
    \/ AfterVerifyKick
    \/ SendLogMessage
    \/ SendLogRaises
    \/ RequestAborts
    \/ VerifyKick

SpecSched == InitSched /\ [][SchedNext]_vars

\* a guild in which every member is verified
AllVerified ==
    /\ roles = [m \in Members |-> {Everyone, Developer}]
    /\ bot = [m \in Members |-> FALSE]
    /\ joined_at = [m \in Members |-> 0]
    /\ inGuild = [m \in Members |-> TRUE]
    /\ others = 0
    /\ staff = {"dev"}
    /\ threshold = KICK_CONFIRMATION_THRESHOLD
    /\ acceptPc = [m \in Members |-> "idle"]

\* the cache holds the id of a reminder sent age hours ago, which is still
\* in the channel or was deleted by hand
CachedReminder(age) ==
    /\ cursorAt = StartClock - age
    /\ last_reminder = Snowflake(cursorAt, SnowflakeShift - 1)
    /\ channel \in {{}, {last_reminder}}

\* process start with every value of the tasks_running setting, and with no
\* reminder cached or one older than the interval
InitJobs ==
    /\ AllVerified
    /\ tasks_running \in {None, 0, 1}
    /\ \/ last_reminder = None /\ channel = {} /\ cursorAt = None
       \/ CachedReminder(REMINDER_FREQUENCY + 2) /\ channel # {}
    /\ clock = StartClock /\ sent = 0
    /\ ProcessStart

\* both jobs under the commands, reloads and restarts, at one point in time;
\* the lifecycle runs find nobody to warn or kick
JobsNext ==
    \/ MaybeStartTasks
    \/ StartCmd
    \/ StartSet
    \/ StopCmd
    \/ StopSet
    \/ CogUnload
    \/ Restart
    \/ UpdateCancelled
    \/ PingCancelled
    \/ LoopTrigger
    \/ CheckMembers
    \/ GiveRole
    \/ KickGate
    \/ SendLogMessage
    \/ SendLogRaises
    \/ BeforeFirstPing
    \/ PingWakes
    \/ PingGet
    \/ PingDeleteEnds
    \/ PingSendReturns
    \/ PingSendFails
    \/ PingSet

SpecJobs == InitJobs /\ [][JobsNext]_vars

\* process start with the tasks_running setting off or on and a cached
\* reminder of every age, or none
InitRemind ==
    /\ AllVerified
    /\ tasks_running \in {0, 1}
    /\ \/ last_reminder = None /\ channel = {} /\ cursorAt = None
       \/ \E age \in Ages : CachedReminder(age)
    /\ clock = StartClock /\ sent = 0
    /\ ProcessStart

\* the reminder job under the commands while hours pass; the lifecycle task
\* is followed to its first trigger only
RemindNext ==
    \/ MaybeStartTasks
    \/ StartCmd
    \/ StartSet
    \/ StopCmd
    \/ StopSet
    \/ UpdateCancelled
    \/ PingCancelled
    \/ BeforeFirstPing
    \/ PingWakes
    \/ PingGet
    \/ PingDeleteEnds
    \/ PingSendReturns
    \/ PingSendFails
    \/ PingSet
    \/ \E d \in TimeSteps : TimePasses(d)

SpecRemind == InitRemind /\ [][RemindNext]_vars

\* delete_message returns normally: the cached reminder is gone
PingDeleteReturns ==
    /\ PingDeleteEnds
    /\ deleteOutcome' = "ok"

\* process start with the tasks_running setting off or on, and no reminder
\* cached or the cached reminder of every age in the channel
InitCursor ==
    /\ AllVerified
    /\ tasks_running \in {0, 1}
    /\ \/ last_reminder = None /\ channel = {} /\ cursorAt = None
       \/ \E age \in Ages : CachedReminder(age) /\ channel # {}
    /\ clock = StartClock /\ sent = 0
    /\ ProcessStart

\* the reminder job under the commands and restarts while hours pass, when
\* every platform call and every cache call that returns has succeeded
CursorNext ==
    \/ MaybeStartTasks
    \/ StartCmd
    \/ StartSet
    \/ StopCmd
    \/ StopSet
    \/ Restart
    \/ UpdateCancelled
    \/ PingCancelled
    \/ BeforeFirstPing
    \/ PingWakes
    \/ PingGet
    \/ PingDeleteReturns
    \/ PingSendReturns
    \/ PingSet
    \/ \E d \in TimeSteps : TimePasses(d)

SpecCursor == InitCursor /\ [][CursorNext]_vars

\* the steps the lifecycle task takes by itself: a pending call returns or
\* raises, the deadline of wait_for is reached, a CancelledError unwinds
RunStep ==
    \/ CheckMembers
    \/ GiveRole
    \/ \E m \in Members : StartRequest(m)
    \/ AddRolesReturns
    \/ AddRolesFails
    \/ SendDmReturns
    \/ SendDmFails
    \/ KickReturns
    \/ KickFails
    \/ GiveRoleReturns
    \/ KickMembersReturns
    \/ KickGate
    \/ AfterVerifyKick
    \/ SendLogMessage
    \/ SendLogRaises
    \/ RequestAborts
    \/ VerifyKickSafe
    \/ VerifyKickAsk
    \/ SendPromptReturns
    \/ AddReactionReturns
    \/ PromptFails
    \/ WaitTimesOut
    \/ ClearReactionsEnds
    \/ EditEnds
    \/ CancelClearEnds
    \/ UpdateCancelled

\* a guild with one member to warn and the others to kick, small enough for
\* the kick to need approval, or large enough not to; both jobs are running
InitLive ==
    /\ roles = [m \in Members |-> {Everyone}]
    /\ bot = [m \in Members |-> FALSE]
    /\ joined_at = [m \in Members |-> IF m = 1 THEN Today - UNVERIFIED_AFTER - 1 ELSE 0]
    /\ inGuild = [m \in Members |-> TRUE]
    /\ others \in {0, 100 * MaxKickCount}
    /\ staff = {"dev"}
    /\ threshold = KICK_CONFIRMATION_THRESHOLD
    /\ acceptPc = [m \in Members |-> "idle"]
    /\ pc = "idle"
    /\ RunReset
    /\ JobsRunning

\* lifecycle runs, the reactions sent to the prompt, the seconds of the wait
\* and the stop command
LiveNext ==
    \/ LoopTrigger
    \/ RunStep
    \/ \E e \in Events : ReactionAdd(e)
    \/ Tick
    \/ StopCmd
    \/ StopSet
    \/ PingCancelled

\* every platform call returns or raises and the event loop resumes the task
\* (weak fairness of RunStep); the clock of the wait advances (weak fairness
\* of Tick).  Reactions, the timer and the stop command are under no
\* obligation to happen
SpecLive ==
    /\ InitLive
    /\ [][LiveNext]_vars
    /\ WF_vars(RunStep)
    /\ WF_vars(Tick)

\* ================================================================ properties
\* time since joining of a member whose join date is known
Elapsed(m) == Today - joined_at[m]

\* the member is one the classifier looks at: not Verified, not a bot, join
\* date known
Candidate(m) == ~Verified(m) /\ ~bot[m] /\ joined_at[m] # None

\* C6: the two sets the classifier returns are disjoint.
C6_Disjoint == for_role \cap for_kick = {}

C6_Witness ==
    /\ pc = "classified"
    /\ for_role # {} /\ for_kick # {}

C8_ForRole ==
    pc = "classified" =>
        /\ for_role \subseteq pydis_members
        /\ \A m \in pydis_members :
              m \in for_role <=>
                  /\ Candidate(m)
                  /\ Elapsed(m) > UNVERIFIED_AFTER /\ Elapsed(m) <= KICKED_AFTER
                  /\ Unverified \notin roles[m]

C8_Witness ==
    /\ pc = "classified"
    /\ for_role # {}
    /\ \E m \in Members :
          /\ Candidate(m) /\ Unverified \in roles[m]
          /\ Elapsed(m) > UNVERIFIED_AFTER /\ Elapsed(m) <= KICKED_AFTER
          /\ m \notin for_role \cup for_kick

\* kick calls made on members in this run
KickCalls == {c \in calls : c[2] = "kick"}

\* C1: in a run, no kick request is started and no kick is called unless
\* _verify_kick has returned True in that run; when it returned False no
\* member of for_kick is kicked and the summary reports the size of for_kick
\* as not authorized.
C1_KickNeedsApproval ==
    /\ (kickReqs # {} \/ KickCalls # {} \/ pc \in {"send_dm", "kick"})
          => authResult = "true"
    /\ authResult = "false" =>
          /\ kickReqs = {} /\ KickCalls = {}
          /\ \A m \in for_kick : inGuild[m]
          /\ pc \notin {"send_dm", "kick"}
          /\ summary # NoSummary =>
                summary.kick = Report("not_authorized", Cardinality(for_kick), 0)

C1_Witness ==
    /\ pc = "idle"
    /\ for_kick # {} /\ authResult = "false"
    /\ summary.kick.kind = "not_authorized"

\* the ratio n_members / len(pydis.members) is strictly below the threshold
BelowThreshold == n_members * 100 < threshold * guild_size

C3_ResultFollowsChoice ==
    (pc = "vk_returned" /\ prompted) =>
        /\ authResult = "true" <=> accepted.emoji = incident_actioned
        /\ accepted.emoji = incident_unactioned => authResult = "false"
        /\ accepted = NoEvent => (authResult = "false" /\ waited >= 300)
        /\ accepted # NoEvent => waited < 300

C3_Witness ==
    /\ pc = "vk_returned" /\ prompted
    /\ accepted.emoji = incident_unactioned
    /\ authResult = "false"

\* C4: the wait ends only by its timeout or by a reaction on the prompt, with
\* one of the two options, from an identifier of the eligible set; any other
\* reaction leaves the wait pending and never yields approval.
C4_OnlyValidReactions ==
    /\ accepted # NoEvent =>
          /\ accepted.message = PromptMsg
          /\ accepted.emoji \in {incident_actioned, incident_unactioned}
          /\ accepted.user \in core_dev_ids
    /\ pc \in {"vk_clear", "vk_edit", "vk_returned"} /\ prompted =>
          (accepted # NoEvent \/ waited >= timeout)
    /\ (ignored /\ accepted = NoEvent) => authResult # "true"

C4_Witness ==
    /\ pc = "vk_wait"
    /\ ignored
    /\ accepted = NoEvent

\* C5: when the first response of an eligible responder on the posted prompt
\* is the approve option, whenever after the posting it is made, _verify_kick
\* returns True.
C5_ApprovalAtAnyMoment ==
    (pc = "vk_returned" /\ prompted /\ firstEligible = incident_actioned)
        => authResult = "true"

\* the members whose requests the batch in progress was given
Requests == IF batch.kind = "role" THEN for_role
            ELSE IF batch.kind = "kick" THEN for_kick ELSE {}

\* C9: when _send_requests has gone through its requests, every request was
\* executed, failed ones included, and the count it returns is the number of
\* requests minus those that raised discord.HTTPException.
C9_BatchCounts ==
    /\ (pc = "send_requests" /\ batch.todo = {}) =>
          /\ Requests \subseteq succeeded \cup failed
          /\ batch.n_success = Cardinality(Requests) - Cardinality(failed \cap Requests)
    /\ role_report.kind = "assigned" =>
          /\ for_role \subseteq succeeded \cup failed
          /\ role_report.n = Cardinality(for_role) - Cardinality(failed \cap for_role)
    /\ kick_report.kind = "kicked" =>
          /\ for_kick \subseteq succeeded \cup failed
          /\ kick_report.n = Cardinality(for_kick) - Cardinality(failed \cap for_kick)

C9_Witness ==
    /\ kick_report.kind = "kicked"
    /\ failed \cap for_kick # {}
    /\ succeeded \cap for_kick # {}
    /\ kick_report.n = Cardinality(for_kick) - Cardinality(failed \cap for_kick)

\* C10: a member of for_role or for_kick that is Verified when its request
\* starts gets no platform call (no add_roles, no send, no kick) and its
\* request counts as a success of the batch.
C10_VerifiedIsNoOp ==
    /\ \A m \in startedVerified :
          /\ m \in for_role \cup for_kick
          /\ \A c \in calls : c[1] # m
          /\ m \in succeeded /\ m \notin failed
          /\ inGuild[m]
    /\ batch.kind # "none" => batch.n_success = Cardinality(succeeded \cap Requests)
    /\ role_report.kind = "assigned" => role_report.n = Cardinality(succeeded \cap for_role)
    /\ kick_report.kind = "kicked" => kick_report.n = Cardinality(succeeded \cap for_kick)

C10_Witness ==
    /\ kick_report.kind = "kicked"
    /\ startedVerified \cap for_kick # {}
    /\ kick_report.n >= 1

\* C17: in every kick request of a member that is still unverified the direct
\* message is attempted before the kick; when the message fails with
\* permission denied (discord.Forbidden) the kick is still called, and the
\* request counts as a success when the kick succeeds.
C17_ForbiddenDmStillKicks ==
    /\ \A m \in kickReqs \ startedVerified : <<m, "send">> \in calls
    /\ \A m \in Members : <<m, "kick">> \in calls => <<m, "send">> \in calls
    /\ \A m \in Members :
          <<m, Forbidden>> \in dmFailed =>
             /\ <<m, "kick">> \in calls
             /\ (pc = "kick" /\ cur = m) \/ m \in succeeded \cup failed \/ pc \in {"raised", "backoff"}
             /\ ~inGuild[m] => m \in succeeded /\ m \notin failed

C17_Witness ==
    \E m \in for_kick :
        /\ <<m, Forbidden>> \in dmFailed
        /\ ~inGuild[m]
        /\ m \in succeeded
        /\ kick_report.kind = "kicked" /\ kick_report.n >= 1

\* C18: whatever platform error the direct message of a kick request ends
\* with, the kick is still called and the failed message does not make the
\* request a failed request.
C18_AnyDmFailureSwallowed ==
    \A f \in dmFailed :
        /\ <<f[1], "kick">> \in calls
        /\ f[1] \in failed => inGuild[f[1]]

\* C18 (amended): a kick request swallows a permission-denied failure
\* (discord.Forbidden) of the direct message and then calls the kick; any
\* other platform error of the message leaves the request: the kick is not
\* called in this run and the request is counted as a failed request.
C18_OnlyForbiddenSwallowed ==
    \A f \in dmFailed :
        IF f[2] = Forbidden
        THEN <<f[1], "kick">> \in calls
        ELSE /\ <<f[1], "kick">> \notin calls
             /\ f[1] \in failed /\ f[1] \notin succeeded
             /\ inGuild[f[1]]

C18_Witness ==
    \E m \in for_kick :
        /\ <<m, ServerError>> \in dmFailed
        /\ m \in failed /\ inGuild[m]
        /\ kick_report.kind = "kicked" /\ kick_report.n < kick_report.total

\* C19: the users whose reaction is accepted are the holders of the
\* core_developers role when the wait begins; the set is not changed while
\* the wait is pending, whoever gains or loses the role, and the reaction
\* wait_for returns is one of a user in that set.
C19_EligibleSetIsSnapshot ==
    [][/\ (pc # "vk_wait" /\ pc' = "vk_wait") => core_dev_ids' = staff
       /\ pc = "vk_wait" => core_dev_ids' = core_dev_ids
       /\ (pc = "vk_wait" /\ accepted' # accepted) =>
             /\ accepted'.user \in core_dev_ids
             /\ check(accepted')]_vars

C19_Witness ==
    /\ accepted # NoEvent
    /\ accepted.user \in core_dev_ids
    /\ accepted.user \notin staff
    /\ ignored
    /\ staff \ core_dev_ids # {}

\* C20: once the prompt was posted and the wait has ended, clear_reactions is
\* attempted before _verify_kick returns, on the timeout path and on the
\* response path; the edit of the prompt is attempted on the response path
\* only, after the clear; a failure of either call never leaves _verify_kick
\* as an exception and never changes the result, which is true exactly when
\* the accepted reaction is the approve option.
C20_CleanUpNeverChangesResult ==
    /\ editOutcome # "none" => clearOutcome # "none" /\ accepted # NoEvent
    /\ clearOutcome # "none" => prompted /\ pc \in {"vk_edit", "vk_returned"}
    /\ (pc = "vk_returned" /\ prompted) =>
          /\ clearOutcome # "none"
          /\ editOutcome # "none" <=> accepted # NoEvent
          /\ authResult = IF accepted.emoji = incident_actioned THEN "true" ELSE "false"

C20_Witness ==
    /\ pc = "vk_returned"
    /\ clearOutcome = "failed" /\ editOutcome = "failed"
    /\ authResult = "true"

\* positions of a lifecycle run and of a reminder run that is executing
UpdateRunning ==
    pc \notin {"idle", "backoff", "raised", "cancelled"}

PingRunning ==
    pingPc \in {"run_get", "run_delete", "run_send", "run_set"}

\* C11: whatever the timer, the start and stop commands, reloads and the
\* start of the process do, each job has at most one task that is not done,
\* and a run of a job executes only inside that task: two runs of the
\* lifecycle job, or two of the reminder job, never execute at once.
C11_OneRunPerJob ==
    /\ updLive \in {0, 1}
    /\ pingLive \in {0, 1}
    /\ UpdateRunning => updLive = 1
    /\ PingRunning => pingLive = 1
    /\ updLive = 0 => pc \in {"idle", "raised"}
    /\ pingLive = 0 => pingPc \in {"off", "raised"}

C11_Witness ==
    /\ startPc = "set"
    /\ tasks_running = 1
    /\ pc = "summary" /\ updLive = 1
    /\ pingPc = "run_send" /\ pingLive = 1
    /\ sent > 0

\* C12: after a lifecycle run was left by an error, the task of the lifecycle
\* job is still alive, so that its timer triggers the next run.
C12_RunFailureKeepsJob ==
    pc \in {"raised", "backoff"} => updLive > 0

\* C13: once a stop command was issued while a lifecycle run was in
\* flight, that run is not interrupted: it is not cancelled, and when the
\* task of the job is over the summary of the run was emitted.
C13_StopLetsRunFinish ==
    stoppedMidRun =>
        /\ pc \notin {"cancelled", "cancel_clear"}
        /\ updLive = 0 => summary # NoSummary

\* C13 (amended): a stop command issued while a lifecycle run is in flight
\* cancels that run at the await it is suspended at: the run makes no further
\* platform call on a member, starts no further request and emits no
\* summary; only the clear_reactions of the prompt is still awaited when the
\* run was waiting for a response.  No run is triggered until the job is
\* started again.
C13_StopCancelsRun ==
    /\ [](stoppedMidRun =>
            /\ pc \in {"cancelled", "cancel_clear", "idle"}
            /\ pc = "cancel_clear" => prompted /\ accepted = NoEvent
            /\ summary = NoSummary)
    /\ [][(stoppedMidRun /\ stoppedMidRun') =>
              /\ calls' = calls /\ kickReqs' = kickReqs
              /\ succeeded' = succeeded /\ failed' = failed
              /\ roles' = roles /\ inGuild' = inGuild
              /\ batch' = batch]_vars

C13_Witness ==
    /\ stoppedMidRun
    /\ updLive = 0 /\ pc = "idle"
    /\ role_report.kind = "assigned"
    /\ batch.kind = "kick" /\ cur # NoMember
    /\ <<cur, "send">> \in calls /\ <<cur, "kick">> \notin calls
    /\ inGuild[cur]

\* C14: when the reminder job is started, its first run begins at once if no
\* reminder id is cached; otherwise the task first sleeps
\* max(0, 28 hours - (now - creation time of the cached reminder)), and the
\* first run begins only when that sleep is over.
C14_FirstRunDelay ==
    /\ [](pingPc = "before_sleep" =>
            /\ cursor # None /\ cursor = last_reminder
            /\ pingWake - sleepFrom = Max(0, REMINDER_FREQUENCY - (sleepFrom - cursorAt)))
    /\ [][/\ (pingPc = "before_get" /\ pingPc' = "run_get") => last_reminder = None
          /\ (pingPc = "before_get" /\ pingPc' = "before_sleep") => last_reminder # None
          /\ (pingPc = "before_sleep" /\ pingPc' = "run_get") => clock >= pingWake
          /\ (pingPc \in {"off", "cancelled", "raised"}) => pingPc' # "run_get"]_vars

C14_Witness ==
    /\ pingPc = "before_sleep"
    /\ sleepFrom - cursorAt = 10
    /\ pingWake - sleepFrom = 18
    /\ startPc = "set"

\* C15: in a run of ping_unverified the deletion of the cached reminder is
\* called only when an id is cached and before the new reminder is sent; a
\* failed deletion is followed by the send; when the send and the
\* task_cache.set have returned, the cached id is the id of the new reminder.
C15_ReminderRun ==
    /\ [](/\ pingPc = "run_delete" => cursor # None /\ new_reminder = None
          /\ (pingPc \in {"run_send", "run_set"} /\ cursor # None) => deleteOutcome # "none"
          /\ deleteOutcome # "none" => pingPc # "run_delete"
          /\ pingPc = "run_set" => new_reminder \in channel)
    /\ [][/\ pingPc = "run_delete" => pingPc' \in {"run_delete", "run_send", "cancelled"}
          /\ (pingPc = "run_set" /\ pingPc' = "sleep") =>
                /\ last_reminder' = new_reminder
                /\ snowflake_time(last_reminder') = cursorAt']_vars

C15_Witness ==
    /\ pingPc = "sleep"
    /\ deleteOutcome = "failed"
    /\ new_reminder # None
    /\ last_reminder = new_reminder
    /\ new_reminder \in channel

\* C16: when maybe_start_tasks has read the setting, both jobs are started
\* if it is 1 and neither is if it is 0 or was never set; a job is only ever
\* started by that or by a start command, and a run only begins in a started
\* job; the stop command writes 0 and the start command writes 1, nothing
\* else writes the setting, and a restart keeps it.
C16_FlagDecidesStart ==
    [][/\ (bootPc = "get" /\ bootPc' = "done") =>
             IF tasks_running = 1
             THEN updLive' = 1 /\ pingLive' = 1 /\ pc' = "idle" /\ pingPc' = "before_get"
             ELSE updLive' = 0 /\ pingLive' = 0 /\ pc' = "idle" /\ pingPc' = "off"
       /\ (updLive' > updLive \/ pingLive' > pingLive) =>
             \/ bootPc = "get" /\ tasks_running = 1
             \/ startPc = "idle" /\ startPc' = "set"
       /\ (pc' = "check" /\ pc # "check") => updLive = 1
       /\ (pingPc' = "run_get" /\ pingPc # "run_get") => pingLive = 1
       /\ (stopPc = "set" /\ stopPc' = "idle" /\ bootPc' = bootPc) => tasks_running' = 0
       /\ (startPc = "set" /\ startPc' = "idle" /\ bootPc' = bootPc) => tasks_running' = 1
       /\ tasks_running' # tasks_running => stopPc = "set" \/ startPc = "set"
       /\ bootPc' = "get" => tasks_running' = tasks_running]_vars

C16_Witness ==
    /\ bootPc = "done" /\ startPc = "idle" /\ stopPc = "idle"
    /\ tasks_running = 0
    /\ updLive = 0 /\ pingLive = 0
    /\ sent > 0
    /\ last_reminder # None /\ snowflake_time(last_reminder) = clock

\* C21: every lifecycle run that starts ends: by its summary, by an error
\* that leaves it, or by a cancellation; a wait for approval that is given no
\* eligible response ends at its timeout, so no run waits for ever.
C21_RunEnds ==
    /\ UpdateRunning ~> ~UpdateRunning
    /\ (pc = "vk_wait") ~> (pc # "vk_wait")
    /\ [][(pc = "vk_wait" /\ pc' = "vk_clear" /\ accepted' = NoEvent) => waited >= timeout]_vars

C21_Witness ==
    /\ pc = "vk_returned"
    /\ prompted /\ accepted = NoEvent /\ ignored
    /\ waited >= timeout
    /\ authResult = "false"
    /\ tasks_running = 1 /\ updLive = 1

\* C22: the lifecycle job never calls the kick on a member who is Verified at
\* that moment, and no member is removed from the guild while Verified,
\* however the accept command interleaves with the kick batch.
C22_NeverKickVerified ==
    [][\A m \in Members :
          /\ (<<m, "kick">> \in calls' /\ <<m, "kick">> \notin calls) => ~Verified(m)
          /\ (inGuild[m] /\ ~inGuild'[m]) => ~Verified(m)]_vars

\* C23: once the role request of the lifecycle job for a member and the
\* accept command of that member have both completed, the member does not
\* hold the verified role and the unverified role together.
C23_NotBothRoles ==
    \A m \in for_role :
        (m \in succeeded \cup failed /\ acceptPc[m] = "idle" /\ Developer \in roles[m])
            => Unverified \notin roles[m]

\* no start or stop command is in flight, no cancelled task is still
\* unwinding and no job was ended by an error of a run
CommandsDone ==
    /\ bootPc = "done" /\ startPc = "idle" /\ stopPc = "idle"
    /\ pc \notin {"cancelled", "cancel_clear", "raised"}
    /\ pingPc \notin {"cancelled", "raised"}

\* C24: whenever every start and stop command has completed, the persisted
\* tasks_running flag is on exactly when both jobs are running, however the
\* commands interleaved with each other and with the unwinding of a cancelled
\* run.
C24_FlagMatchesJobs ==
    CommandsDone =>
        (Truthy(tasks_running) <=> (is_running(updLive) /\ is_running(pingLive)))

\* no run of the reminder job is executing or being cancelled
NoReminderRun == pingPc \in {"off", "before_get", "before_sleep", "sleep"}

\* C25: when no call fails, whenever no reminder run is in progress at most
\* one reminder of the job is in the channel, and it is the one the persisted
\* cursor names, whatever reminder runs, stop and start commands and restarts
\* came before.
C25_OneReminder ==
    NoReminderRun =>
        /\ Cardinality(channel) <= 1
        /\ channel \subseteq {last_reminder}

===========================================================================
